---- MODULE Spec2Model ----
(***************************************************************************)
(* LangchainProcessor and LanggraphProcessor (pipecat frame processors).   *)
(*                                                                         *)
(* Every call of process_frame is a coroutine; it is identified by its    *)
(* arrival number c (the c-th call made on the processor).  pc[c] is the   *)
(* await at which the coroutine is suspended.  An action resumes a         *)
(* coroutine from its await and runs its code up to the next await.        *)
(* push_frame hands the frame to the downstream sink when it is called     *)
(* (the frame is appended to out) and the caller is suspended until the    *)
(* sink completes the push.                                                *)
(***************************************************************************)
EXTENDS Integers, Sequences, FiniteSets, TLC

VARIABLES
    proc,            \* which processor class the instance is
    config,          \* LangchainProcessor._config (one dict object, mutated in place)
    participant_id,  \* LanggraphProcessor._participant_id
    updates,         \* history: the arguments of the set_configurable calls so far
    arrived,         \* history: the (frame, direction) of every process_frame call
    out,             \* history: every frame handed to push_frame, in order
    pc,              \* per call: the await the coroutine is suspended at
    result,          \* per call: how process_frame ended
    log,             \* per call: the warnings and errors it has logged
    text,            \* per call: the argument of _ainvoke
    submitted,       \* per call: the input the backend stream was opened with
    cfgRef,          \* per call: which dict object the backend was handed
    openedCfg,       \* per call: content of that dict when the stream was opened
    openedUpd,       \* per call: number of set_configurable calls before the open
    opens,           \* per call: number of times the backend stream was opened
    yielded,         \* per call: the elements the backend stream has yielded
    docidx           \* per call: position of the `for doc in docs` loop

vars == <<proc, config, participant_id, updates, arrived, out, pc, result, log,
          text, submitted, cfgRef, openedCfg, openedUpd, opens, yielded, docidx>>

-----------------------------------------------------------------------------
(* Bounds *)

MaxCalls == 2      \* process_frame calls made on the instance
MaxYields == 3     \* elements the backend streams yield, all calls together
MaxUpdates == 2    \* set_configurable / set_participant_id calls

Calls == 1 .. MaxCalls

-----------------------------------------------------------------------------
(* Strings whose characters matter are sequences of characters *)

Whitespace == {" ", "\t", "\n"}

RECURSIVE lstrip(_)
lstrip(s) ==
    IF s # <<>> /\ Head(s) \in Whitespace THEN lstrip(Tail(s)) ELSE s

RECURSIVE rstrip(_)
rstrip(s) ==
    IF s # <<>> /\ s[Len(s)] \in Whitespace
    THEN rstrip(SubSeq(s, 1, Len(s) - 1))
    ELSE s

\* str.strip()
strip(s) == rstrip(lstrip(s))

-----------------------------------------------------------------------------
(* Frames *)

DOWNSTREAM == "DOWNSTREAM"
UPSTREAM == "UPSTREAM"
FrameDirection == {DOWNSTREAM, UPSTREAM}

Frame(kind, txt, result_, type_, messages) ==
    [kind |-> kind, text |-> txt, result |-> result_, type |-> type_,
     messages |-> messages]

LLMFullResponseStartFrame == Frame("LLMFullResponseStartFrame", "", "", "", <<>>)
LLMFullResponseEndFrame == Frame("LLMFullResponseEndFrame", "", "", "", <<>>)
LLMResponseStartFrame == Frame("LLMResponseStartFrame", "", "", "", <<>>)
LLMResponseEndFrame == Frame("LLMResponseEndFrame", "", "", "", <<>>)
TextFrame(txt) == Frame("TextFrame", txt, "", "", <<>>)
\* dataclass ToolResultMessage(DataFrame): result, type = "tool_result"
ToolResultMessage(result_) == Frame("ToolResultMessage", "", result_, "tool_result", <<>>)
LLMMessagesFrame(messages) == Frame("LLMMessagesFrame", "", "", "", messages)

\* isinstance(frame, LLMMessagesFrame)
IsLLMMessagesFrame(frame) == frame.kind = "LLMMessagesFrame"

\* a message record of the aggregated list; hasContent: the "content" key is there
Message(role, content) == [role |-> role, hasContent |-> TRUE, content |-> content]
MessageNoContent(role) == [role |-> role, hasContent |-> FALSE, content |-> <<>>]

Hello == <<" ", "H", "i", " ">>
Bye == <<"B", " ", "y", "\n">>
Blank == <<" ", "\t">>

MessageLists ==
    { <<>>,
      <<Message("user", Hello)>>,
      <<Message("user", Hello), Message("user", Bye)>>,
      <<Message("assistant", Bye), Message("user", Blank)>>,
      <<Message("user", Hello), MessageNoContent("user")>> }

TriggerFrames == { LLMMessagesFrame(m) : m \in MessageLists }

OtherFrames ==
    { Frame("AudioRawFrame", "", "", "", <<>>),
      Frame("TextFrame", "Hi", "", "", <<>>) }

InFrames == TriggerFrames \cup OtherFrames

-----------------------------------------------------------------------------
(* Dicts are functions whose domain is the set of keys present *)

EmptyDict == [k \in {} |-> ""]

\* mutant of DictUpdate: the new dict takes the place of the old one
DictReplace(d, u) == u

\* dict.update(u): keys of u overwrite, the other keys stay
DictUpdate(d, u) ==
    [k \in (DOMAIN d) \cup (DOMAIN u) |-> IF k \in DOMAIN u THEN u[k] ELSE d[k]]

\* the arguments set_configurable is called with
Configurables ==
    { [k \in {"thread_id"} |-> "abc"],
      [k \in {"thread_id", "lang"} |-> IF k = "thread_id" THEN "xyz" ELSE "en"],
      [k \in {"lang"} |-> "de"] }

ParticipantIds == {"p1", "p2"}
None == "None"

-----------------------------------------------------------------------------
(* What a backend stream yields *)

\* simple tier: chain.astream yields str, AIMessageChunk, or anything else
Token(shape, content) == [shape |-> shape, content |-> content]

Tokens ==
    { Token("str", "Hel"), Token("AIMessageChunk", "lo"), Token("dict", "junk") }

NoToken == Token("absent", "")

\* event-graph tier: graph.astream_events yields event dicts.  hasChunk is
\* `"chunk" in event["data"]`, hasDocs is `"output" in event["data"]`.
Event(kind, hasChunk, chunk, hasDocs, documents) ==
    [event |-> kind, hasChunk |-> hasChunk, chunk |-> chunk,
     hasDocs |-> hasDocs, documents |-> documents]

Events ==
    { Event("on_chat_model_stream", TRUE, Token("AIMessageChunk", "42"), FALSE, <<>>),
      Event("on_chat_model_stream", TRUE, Token("dict", "junk"), FALSE, <<>>),
      Event("on_chat_model_stream", FALSE, NoToken, FALSE, <<>>),
      Event("on_tool_start", FALSE, NoToken, FALSE, <<>>),
      Event("on_tool_end", FALSE, NoToken, TRUE, <<>>),
      Event("on_retriever_end", FALSE, NoToken, TRUE, <<"D1", "D2">>),
      Event("on_retriever_end", FALSE, NoToken, TRUE, <<>>),
      Event("on_retriever_end", FALSE, NoToken, FALSE, <<>>),
      Event("on_chain_start", FALSE, NoToken, FALSE, <<>>) }

StreamElements(p) == IF p = "langchain" THEN Tokens ELSE Events

\* mutant of get_token_value: the AIMessageChunk case is missing
get_token_value_str_only(token) ==
    CASE token.shape = "str" -> token.content
      [] OTHER -> ""

\* __get_token_value
get_token_value(token) ==
    CASE token.shape = "str" -> token.content
      [] token.shape = "AIMessageChunk" -> token.content
      [] OTHER -> ""

-----------------------------------------------------------------------------
(* Exceptions *)

\* the classes that derive from Exception; CancelledError and GeneratorExit
\* derive from BaseException only
ExceptionSubclasses == {"Exception", "KeyError", "IndexError", "BackendError"}

\* mutant of Caught: the `except Exception` clause is missing
CaughtGeneratorExitOnly(exc) == exc = "GeneratorExit"

\* the except clauses of _ainvoke: `except GeneratorExit` / `except Exception`
Caught(exc) == exc = "GeneratorExit" \/ exc \in ExceptionSubclasses

\* the awaits that lie inside the try block of _ainvoke
TryAwaits == {"anext", "push_text", "push_substart", "push_subend", "push_doc"}
Awaits == TryAwaits \cup {"push_start", "push_end", "push_other"}

-----------------------------------------------------------------------------
(* Initial state: after __init__ *)

Init ==
    /\ proc \in {"langchain", "langgraph"}
    /\ config = EmptyDict
    /\ participant_id = None
    /\ updates = <<>>
    /\ arrived = <<>>
    /\ out = <<>>
    /\ pc = [c \in Calls |-> "unused"]
    /\ result = [c \in Calls |-> "none"]
    /\ log = [c \in Calls |-> <<>>]
    /\ text = [c \in Calls |-> <<>>]
    /\ submitted = [c \in Calls |-> <<>>]
    /\ cfgRef = [c \in Calls |-> "none"]
    /\ openedCfg = [c \in Calls |-> EmptyDict]
    /\ openedUpd = [c \in Calls |-> 0]
    /\ opens = [c \in Calls |-> 0]
    /\ yielded = [c \in Calls |-> <<>>]
    /\ docidx = [c \in Calls |-> 0]

-----------------------------------------------------------------------------
(* push_frame and the ways a coroutine goes on *)

\* FrameProcessor.push_frame(frame, direction): the frame goes to the sink
Pushed(c, frame, direction) ==
    Append(out, [frame |-> frame, dir |-> direction, call |-> c])

\* push the frame and suspend at the await `at`
PushAndAwait(c, frame, direction, at) ==
    /\ out' = Pushed(c, frame, direction)
    /\ pc' = [pc EXCEPT ![c] = at]
    /\ UNCHANGED <<result, log>>

\* suspend at the await `at` without pushing anything
AwaitAt(c, at) ==
    /\ pc' = [pc EXCEPT ![c] = at]
    /\ UNCHANGED <<out, result, log>>

\* process_frame ends: it returns, or an exception leaves it
Finish(c, how) ==
    /\ pc' = [pc EXCEPT ![c] = "done"]
    /\ result' = [result EXCEPT ![c] = how]
    /\ UNCHANGED <<out, log>>

\* mutant of PushEnd: the end frame is not pushed after the loop
PushEndMissing(c) == AwaitAt(c, "push_end")

\* _ainvoke after its try statement: push the end frame
PushEnd(c) == PushAndAwait(c, LLMFullResponseEndFrame, DOWNSTREAM, "push_end")

\* what the except clause that catches exc logs
Logged(exc) ==
    IF exc = "GeneratorExit"
    THEN [level |-> "warning", exc |-> exc]
    ELSE [level |-> "error", exc |-> exc]

\* mutant of RaiseInTry: the end frame is pushed inside the try block, so a
\* caught exception skips it
RaiseInTryNoEnd(c, exc) ==
    IF Caught(exc)
    THEN /\ pc' = [pc EXCEPT ![c] = "done"]
         /\ result' = [result EXCEPT ![c] = "returned"]
         /\ log' = [log EXCEPT ![c] = Append(@, Logged(exc))]
         /\ UNCHANGED out
    ELSE Finish(c, exc)

\* mutant of RaiseInTry: after a caught exception the stream is opened again
RaiseInTryRetry(c, exc) ==
    IF Caught(exc)
    THEN /\ pc' = [pc EXCEPT ![c] = "push_start"]
         /\ log' = [log EXCEPT ![c] = Append(@, Logged(exc))]
         /\ UNCHANGED <<out, result>>
    ELSE Finish(c, exc)

\* an exception raised inside the try block of _ainvoke
RaiseInTry(c, exc) ==
    IF Caught(exc)
    THEN /\ out' = Pushed(c, LLMFullResponseEndFrame, DOWNSTREAM)
         /\ pc' = [pc EXCEPT ![c] = "push_end"]
         /\ log' = [log EXCEPT ![c] = Append(@, Logged(exc))]
         /\ UNCHANGED result
    ELSE Finish(c, exc)

-----------------------------------------------------------------------------
(* process_frame *)

stream == <<submitted, cfgRef, openedCfg, openedUpd, opens, yielded, docidx>>
settings == <<proc, config, participant_id, updates>>

\* frame.messages[-1]["content"]: the exception it raises, or "ok"
LastContentFault(messages) ==
    IF messages = <<>> THEN "IndexError"
    ELSE IF ~messages[Len(messages)].hasContent THEN "KeyError"
    ELSE "ok"

\* mutant of InvokeText: the first message is taken, not the last
InvokeTextFirst(messages) == strip(messages[1].content)

\* text: str = frame.messages[-1]["content"]; text.strip()
InvokeText(messages) == strip(messages[Len(messages)].content)

\* mutant of ProcessFrameTrigger: the trigger frame is pushed on like any other
ProcessFrameTriggerForward(c, frame, direction) ==
    /\ PushAndAwait(c, frame, direction, "push_other")
    /\ UNCHANGED text

\* mutant of ProcessFrameTrigger: _ainvoke is started as a task of its own and
\* not awaited, so process_frame returns while the invocation runs
ProcessFrameTriggerDetached(c, frame, direction) ==
    IF LastContentFault(frame.messages) # "ok"
    THEN /\ Finish(c, LastContentFault(frame.messages))
         /\ UNCHANGED text
    ELSE /\ text' = [text EXCEPT ![c] = InvokeText(frame.messages)]
         /\ out' = Pushed(c, LLMFullResponseStartFrame, DOWNSTREAM)
         /\ pc' = [pc EXCEPT ![c] = "push_start"]
         /\ result' = [result EXCEPT ![c] = "returned"]
         /\ UNCHANGED log

\* mutant of ProcessFrameTrigger: the start frame is pushed before the text is
\* taken from the last message
ProcessFrameTriggerStartFirst(c, frame, direction) ==
    IF LastContentFault(frame.messages) # "ok"
    THEN /\ out' = Pushed(c, LLMFullResponseStartFrame, DOWNSTREAM)
         /\ pc' = [pc EXCEPT ![c] = "done"]
         /\ result' = [result EXCEPT ![c] = LastContentFault(frame.messages)]
         /\ UNCHANGED <<text, log>>
    ELSE /\ text' = [text EXCEPT ![c] = InvokeText(frame.messages)]
         /\ PushAndAwait(c, LLMFullResponseStartFrame, DOWNSTREAM, "push_start")

\* process_frame, the LLMMessagesFrame branch, up to the first await of _ainvoke
ProcessFrameTrigger(c, frame, direction) ==
    IF LastContentFault(frame.messages) # "ok"
    THEN /\ Finish(c, LastContentFault(frame.messages))
         /\ UNCHANGED text
    ELSE /\ text' = [text EXCEPT ![c] = InvokeText(frame.messages)]
         /\ PushAndAwait(c, LLMFullResponseStartFrame, DOWNSTREAM, "push_start")

\* mutant of ProcessFrameOther: push_frame(frame), the direction is dropped
ProcessFrameOtherDownstream(c, frame, direction) ==
    /\ PushAndAwait(c, frame, DOWNSTREAM, "push_other")
    /\ UNCHANGED text

\* process_frame, the else branch
ProcessFrameOther(c, frame, direction) ==
    /\ PushAndAwait(c, frame, direction, "push_other")
    /\ UNCHANGED text

\* a caller calls process_frame(frame, direction)
ProcessFrame(frame, direction) ==
    /\ Len(arrived) < MaxCalls
    /\ arrived' = Append(arrived, [frame |-> frame, dir |-> direction])
    /\ IF IsLLMMessagesFrame(frame)
       THEN ProcessFrameTrigger(Len(arrived) + 1, frame, direction)
       ELSE ProcessFrameOther(Len(arrived) + 1, frame, direction)
    /\ UNCHANGED <<settings, stream>>

\* the await of process_frame's else branch completes
OtherPushed(c) ==
    /\ pc[c] = "push_other"
    /\ Finish(c, "returned")
    /\ UNCHANGED <<settings, arrived, text, stream>>

-----------------------------------------------------------------------------
(* _ainvoke *)

\* the dict object handed to the backend as config["configurable"]
ConfigurableRef(p) == IF p = "langchain" THEN "self._config" ELSE "fresh"

\* the content of that object when it is handed over
ConfigurableNow(p) ==
    IF p = "langchain" THEN config
    ELSE [k \in {"thread_id"} |-> participant_id]

\* what the backend reads from the object it was handed
BackendConfigurable(c) ==
    IF cfgRef[c] = "self._config" THEN config ELSE openedCfg[c]

\* the start frame is pushed; the async for statement opens the stream
OpenStream(c) ==
    /\ pc[c] = "push_start"
    /\ submitted' = [submitted EXCEPT ![c] = text[c]]
    /\ cfgRef' = [cfgRef EXCEPT ![c] = ConfigurableRef(proc)]
    /\ openedCfg' = [openedCfg EXCEPT ![c] = ConfigurableNow(proc)]
    /\ openedUpd' = [openedUpd EXCEPT ![c] = Len(updates)]
    /\ opens' = [opens EXCEPT ![c] = @ + 1]
    /\ AwaitAt(c, "anext")
    /\ UNCHANGED <<settings, arrived, text, yielded, docidx>>

\* the element the loop body is working on
Current(c) == yielded[c][Len(yielded[c])]

\* mutant of ChainBody: push_frame is called without await, so its coroutine
\* never runs and the loop asks for the next token at once
ChainBodyNoAwait(c, token) ==
    /\ AwaitAt(c, "anext")
    /\ UNCHANGED docidx

\* body of the async for of LangchainProcessor._ainvoke
ChainBody(c, token) ==
    /\ PushAndAwait(c, TextFrame(get_token_value(token)), DOWNSTREAM, "push_text")
    /\ UNCHANGED docidx

\* mutant of GraphBody: on_tool_end pushes the tool's output as a TextFrame
GraphBodyToolEndText(c, event) ==
    CASE event.event = "on_chat_model_stream" ->
            /\ PushAndAwait(c, LLMResponseStartFrame, DOWNSTREAM, "push_substart")
            /\ UNCHANGED docidx
      [] event.event = "on_tool_end" ->
            /\ PushAndAwait(c, TextFrame("tool"), DOWNSTREAM, "push_subend")
            /\ UNCHANGED docidx
      [] event.event = "on_retriever_end" ->
            IF ~event.hasDocs
            THEN /\ RaiseInTry(c, "KeyError")
                 /\ UNCHANGED docidx
            ELSE IF event.documents = <<>>
            THEN /\ AwaitAt(c, "anext")
                 /\ UNCHANGED docidx
            ELSE /\ PushAndAwait(c, ToolResultMessage(event.documents[1]),
                                 DOWNSTREAM, "push_doc")
                 /\ docidx' = [docidx EXCEPT ![c] = 1]
      [] OTHER ->
            /\ AwaitAt(c, "anext")
            /\ UNCHANGED docidx

\* body of the async for of LanggraphProcessor._ainvoke, up to its first await
GraphBody(c, event) ==
    CASE event.event = "on_chat_model_stream" ->
            /\ PushAndAwait(c, LLMResponseStartFrame, DOWNSTREAM, "push_substart")
            /\ UNCHANGED docidx
      [] event.event = "on_tool_start" ->
            /\ AwaitAt(c, "anext")
            /\ UNCHANGED docidx
      [] event.event = "on_tool_end" ->
            /\ AwaitAt(c, "anext")
            /\ UNCHANGED docidx
      [] event.event = "on_retriever_end" ->
            IF ~event.hasDocs
            THEN /\ RaiseInTry(c, "KeyError")
                 /\ UNCHANGED docidx
            ELSE IF event.documents = <<>>
            THEN /\ AwaitAt(c, "anext")
                 /\ UNCHANGED docidx
            ELSE /\ PushAndAwait(c, ToolResultMessage(event.documents[1]),
                                 DOWNSTREAM, "push_doc")
                 /\ docidx' = [docidx EXCEPT ![c] = 1]
      [] OTHER ->
            /\ AwaitAt(c, "anext")
            /\ UNCHANGED docidx

\* the number of elements the streams of the calls 1..c have yielded
RECURSIVE Yields(_)
Yields(c) == IF c = 0 THEN 0 ELSE Len(yielded[c]) + Yields(c - 1)

\* the backend stream yields an element
BackendYield(c, element) ==
    /\ pc[c] = "anext"
    /\ Yields(MaxCalls) < MaxYields
    /\ yielded' = [yielded EXCEPT ![c] = Append(@, element)]
    /\ IF proc = "langchain" THEN ChainBody(c, element) ELSE GraphBody(c, element)
    /\ UNCHANGED <<settings, arrived, text, submitted, cfgRef, openedCfg,
                   openedUpd, opens>>

\* the backend stream is exhausted (StopAsyncIteration ends the async for)
BackendEnd(c) ==
    /\ pc[c] = "anext"
    /\ PushEnd(c)
    /\ UNCHANGED <<settings, arrived, text, stream>>

\* the backend raises, when the stream is opened or after some elements
BackendRaise(c) ==
    /\ pc[c] = "anext"
    /\ RaiseInTry(c, "BackendError")
    /\ UNCHANGED <<settings, arrived, text, stream>>

\* LanggraphProcessor: the sub-response start frame is pushed
SubStartPushed(c) ==
    /\ pc[c] = "push_substart"
    /\ IF Current(c).hasChunk
       THEN PushAndAwait(c, TextFrame(get_token_value(Current(c).chunk)),
                         DOWNSTREAM, "push_text")
       ELSE RaiseInTry(c, "KeyError")
    /\ UNCHANGED <<settings, arrived, text, stream>>

\* mutant of TextPushed: the sub-response end frame is not pushed
TextPushedNoSubEnd(c) ==
    /\ pc[c] = "push_text"
    /\ AwaitAt(c, "anext")
    /\ UNCHANGED <<settings, arrived, text, stream>>

\* the text frame is pushed
TextPushed(c) ==
    /\ pc[c] = "push_text"
    /\ IF proc = "langchain"
       THEN AwaitAt(c, "anext")
       ELSE PushAndAwait(c, LLMResponseEndFrame, DOWNSTREAM, "push_subend")
    /\ UNCHANGED <<settings, arrived, text, stream>>

\* LanggraphProcessor: the sub-response end frame is pushed
SubEndPushed(c) ==
    /\ pc[c] = "push_subend"
    /\ AwaitAt(c, "anext")
    /\ UNCHANGED <<settings, arrived, text, stream>>

\* mutant of DocPushed: the loop indexes the documents from the end
DocPushedFromEnd(c) ==
    /\ pc[c] = "push_doc"
    /\ IF docidx[c] < Len(Current(c).documents)
       THEN /\ PushAndAwait(c, ToolResultMessage(
                    Current(c).documents[Len(Current(c).documents) - docidx[c]]),
                    DOWNSTREAM, "push_doc")
            /\ docidx' = [docidx EXCEPT ![c] = @ + 1]
       ELSE /\ AwaitAt(c, "anext")
            /\ docidx' = [docidx EXCEPT ![c] = 0]
    /\ UNCHANGED <<settings, arrived, text, submitted, cfgRef, openedCfg,
                   openedUpd, opens, yielded>>

\* mutant of DocPushed: the loop over the documents ends after the first one
DocPushedOnce(c) ==
    /\ pc[c] = "push_doc"
    /\ AwaitAt(c, "anext")
    /\ docidx' = [docidx EXCEPT ![c] = 0]
    /\ UNCHANGED <<settings, arrived, text, submitted, cfgRef, openedCfg,
                   openedUpd, opens, yielded>>

\* LanggraphProcessor: a tool result is pushed; `for doc in docs` goes on
DocPushed(c) ==
    /\ pc[c] = "push_doc"
    /\ IF docidx[c] < Len(Current(c).documents)
       THEN /\ PushAndAwait(c, ToolResultMessage(Current(c).documents[docidx[c] + 1]),
                            DOWNSTREAM, "push_doc")
            /\ docidx' = [docidx EXCEPT ![c] = @ + 1]
       ELSE /\ AwaitAt(c, "anext")
            /\ docidx' = [docidx EXCEPT ![c] = 0]
    /\ UNCHANGED <<settings, arrived, text, submitted, cfgRef, openedCfg,
                   openedUpd, opens, yielded>>

\* the end frame is pushed; _ainvoke and process_frame return
EndPushed(c) ==
    /\ pc[c] = "push_end"
    /\ Finish(c, "returned")
    /\ UNCHANGED <<settings, arrived, text, stream>>

-----------------------------------------------------------------------------
(* Teardown of a suspended coroutine *)

\* an exception thrown into the coroutine at the await it is suspended at
ThrowAt(c, exc) ==
    IF pc[c] \in TryAwaits THEN RaiseInTry(c, exc) ELSE Finish(c, exc)

\* task.cancel(): CancelledError is thrown at the await
Cancel(c) ==
    /\ pc[c] \in Awaits
    /\ ThrowAt(c, "CancelledError")
    /\ UNCHANGED <<settings, arrived, text, stream>>

\* the coroutine (the stream generator under it) is closed: GeneratorExit
Close(c) ==
    /\ pc[c] \in Awaits
    /\ ThrowAt(c, "GeneratorExit")
    /\ UNCHANGED <<settings, arrived, text, stream>>

-----------------------------------------------------------------------------
(* Configuration *)

\* LangchainProcessor.set_configurable
SetConfigurable(configurable) ==
    /\ proc = "langchain"
    /\ Len(updates) < MaxUpdates
    /\ config' = DictUpdate(config, configurable)
    /\ updates' = Append(updates, configurable)
    /\ UNCHANGED <<proc, participant_id, arrived, out, pc, result, log, text, stream>>

\* LanggraphProcessor.set_participant_id
SetParticipantId(participant) ==
    /\ proc = "langgraph"
    /\ participant # participant_id
    /\ participant_id' = participant
    /\ UNCHANGED <<proc, config, updates, arrived, out, pc, result, log, text, stream>>

-----------------------------------------------------------------------------
(* The pipeline around the processor *)

\* the pipeline awaits a process_frame call before it makes the next one:
\* every call made so far has returned or raised
PipelineIdle == \A c \in Calls : c <= Len(arrived) => result[c] # "none"

\* one well-formed trigger, for the runs that are not about the adapter
HelloFrame == LLMMessagesFrame(<<Message("user", Hello)>>)

\* one element per tier, for the runs that are not about the stream
FirstElements(p) ==
    IF p = "langchain"
    THEN {Token("str", "Hel")}
    ELSE {Event("on_chat_model_stream", TRUE, Token("AIMessageChunk", "42"), FALSE, <<>>)}

\* Steps of a running call that every specification has
Resume(c) ==
    \/ OpenStream(c)
    \/ BackendEnd(c)
    \/ SubStartPushed(c)
    \/ TextPushed(c)
    \/ SubEndPushed(c)
    \/ EndPushed(c)

\* The stream: every backend outcome and every teardown, one trigger frame
Next ==
    \/ PipelineIdle /\ ProcessFrame(HelloFrame, DOWNSTREAM)
    \/ \E c \in Calls : Resume(c)
    \/ \E c \in Calls, element \in StreamElements(proc) : BackendYield(c, element)
    \/ \E c \in Calls : BackendRaise(c)
    \/ \E c \in Calls : DocPushed(c)
    \/ \E c \in Calls : Cancel(c)
    \/ \E c \in Calls : Close(c)

Spec == Init /\ [][Next]_vars

\* The adapter: every inbound frame and direction, a one-element stream alphabet
NextAdapter ==
    \/ \E frame \in InFrames, direction \in FrameDirection :
          PipelineIdle /\ ProcessFrame(frame, direction)
    \/ \E c \in Calls : OtherPushed(c)
    \/ \E c \in Calls : Resume(c)
    \/ \E c \in Calls, element \in FirstElements(proc) : BackendYield(c, element)

SpecAdapter == Init /\ [][NextAdapter]_vars

\* The configuration: set_configurable and set_participant_id at any moment
NextConfig ==
    \/ PipelineIdle /\ ProcessFrame(HelloFrame, DOWNSTREAM)
    \/ \E c \in Calls : Resume(c)
    \/ \E c \in Calls, element \in FirstElements(proc) : BackendYield(c, element)
    \/ \E configurable \in Configurables : SetConfigurable(configurable)
    \/ \E participant \in ParticipantIds : SetParticipantId(participant)

SpecConfig == Init /\ [][NextConfig]_vars

\* the trigger frames whose last message has no text to take
FaultyFrames == { f \in TriggerFrames : LastContentFault(f.messages) # "ok" }

\* Trigger frames with and without a usable last message, on a processor that
\* is being configured
NextFault ==
    \/ \E frame \in FaultyFrames \cup {HelloFrame} :
          PipelineIdle /\ ProcessFrame(frame, DOWNSTREAM)
    \/ \E c \in Calls : Resume(c)
    \/ \E c \in Calls, element \in FirstElements(proc) : BackendYield(c, element)
    \/ \E configurable \in Configurables : SetConfigurable(configurable)
    \/ \E participant \in ParticipantIds : SetParticipantId(participant)

SpecFault == Init /\ [][NextFault]_vars

\* The token shapes: a plain string and a chunk with the same text, another
\* chunk, and two values that are neither
TokenShapes ==
    { Token("str", "Hel"), Token("AIMessageChunk", "Hel"), Token("AIMessageChunk", "lo"),
      Token("dict", "junk"), Token("NoneType", "") }

TokenElements(p) ==
    IF p = "langchain"
    THEN TokenShapes
    ELSE { Event("on_chat_model_stream", TRUE, t, FALSE, <<>>) : t \in TokenShapes }

\* __get_token_value applied to every token shape, in both processors
NextTokens ==
    \/ PipelineIdle /\ ProcessFrame(HelloFrame, DOWNSTREAM)
    \/ \E c \in Calls : Resume(c)
    \/ \E c \in Calls, element \in TokenElements(proc) : BackendYield(c, element)

SpecTokens == Init /\ [][NextTokens]_vars

\* The stream without teardown, under a sink that completes every push and a
\* backend that answers every request for the next element: a call that can
\* take a step does take one
StepOf(c) ==
    \/ Resume(c)
    \/ DocPushed(c)
    \/ BackendRaise(c)
    \/ \E element \in StreamElements(proc) : BackendYield(c, element)

NextLive ==
    \/ PipelineIdle /\ ProcessFrame(HelloFrame, DOWNSTREAM)
    \/ \E c \in Calls : StepOf(c)

SpecLive == Init /\ [][NextLive]_vars /\ \A c \in Calls : WF_vars(StepOf(c))

-----------------------------------------------------------------------------
(* What the claims speak about *)

Range(seq) == { seq[i] : i \in 1 .. Len(seq) }

\* the frames call c has pushed, in order
FramesOf(c) ==
    LET mine == SelectSeq(out, LAMBDA r : r.call = c)
    IN  [i \in 1 .. Len(mine) |-> mine[i].frame]

\* call c has entered _ainvoke
Invoked(c) ==
    /\ c <= Len(arrived)
    /\ IsLLMMessagesFrame(arrived[c].frame)
    /\ LastContentFault(arrived[c].frame.messages) = "ok"

\* process_frame was ended by a teardown thrown into it from outside
TornDown(c) == result[c] \in {"CancelledError", "GeneratorExit"}

PayloadKinds ==
    {"TextFrame", "LLMResponseStartFrame", "LLMResponseEndFrame", "ToolResultMessage"}

\* a start frame, then payload frames only
OpenBracket(frames) ==
    /\ frames # <<>>
    /\ frames[1] = LLMFullResponseStartFrame
    /\ \A i \in 2 .. Len(frames) : frames[i].kind \in PayloadKinds

\* a start frame, payload frames only, an end frame
ClosedBracket(frames) ==
    /\ Len(frames) >= 2
    /\ frames[Len(frames)] = LLMFullResponseEndFrame
    /\ OpenBracket(SubSeq(frames, 1, Len(frames) - 1))

\* the frames a wholly processed element gives rise to
ElementFrames(p, element) ==
    IF p = "langchain"
    THEN <<TextFrame(get_token_value(element))>>
    ELSE CASE element.event = "on_chat_model_stream" /\ element.hasChunk ->
                 <<LLMResponseStartFrame,
                   TextFrame(get_token_value(element.chunk)),
                   LLMResponseEndFrame>>
           [] element.event = "on_retriever_end" /\ element.hasDocs ->
                 [i \in 1 .. Len(element.documents) |->
                     ToolResultMessage(element.documents[i])]
           [] OTHER -> <<>>

RECURSIVE StreamFrames(_, _)
StreamFrames(p, elements) ==
    IF elements = <<>> THEN <<>>
    ELSE ElementFrames(p, Head(elements)) \o StreamFrames(p, Tail(elements))

IsPrefix(a, b) == Len(a) <= Len(b) /\ a = SubSeq(b, 1, Len(a))

\* the stream of call c was exhausted or raised: the loop was left at the
\* await of the next element, with nothing or the backend's fault to log
StreamOver(c) ==
    /\ LLMFullResponseEndFrame \in Range(FramesOf(c))
    /\ \/ log[c] = <<>>
       \/ log[c] = <<[level |-> "error", exc |-> "BackendError"]>>

\* the TextFrame and ToolResultMessage frames among frames
TextAndToolFrames(frames) ==
    SelectSeq(frames, LAMBDA f : f.kind \in {"TextFrame", "ToolResultMessage"})

-----------------------------------------------------------------------------
(* C1: the frames of an invocation are one LLMFullResponseStartFrame, then
   payload frames only, then one LLMFullResponseEndFrame: while it runs they
   are such a bracket still open or just closed, and once process_frame has
   ended for any reason but a teardown thrown into it, the bracket is closed *)
C1_OneBracketPerInvocation ==
    \A c \in Calls :
        Invoked(c) =>
            /\ OpenBracket(FramesOf(c)) \/ ClosedBracket(FramesOf(c))
            /\ pc[c] = "push_end" => ClosedBracket(FramesOf(c))
            /\ (pc[c] = "done" /\ ~TornDown(c)) =>
                   /\ result[c] = "returned"
                   /\ ClosedBracket(FramesOf(c))

\* an invocation whose stream raised after an element has returned
C1_Witness ==
    \E c \in Calls :
        /\ Invoked(c)
        /\ result[c] = "returned"
        /\ Len(yielded[c]) >= 1
        /\ [level |-> "error", exc |-> "BackendError"] \in Range(log[c])
        /\ Len(FramesOf(c)) >= 3

(* C2: a fault of the backend stream never leaves _ainvoke: once the backend
   has raised, after any number of elements, the frames of the invocation
   are the start frame, the frames of the elements yielded before, and the
   end frame, and process_frame does not end with that fault *)
C2_BackendFaultContained ==
    \A c \in Calls :
        /\ result[c] \notin ExceptionSubclasses
        /\ [level |-> "error", exc |-> "BackendError"] \in Range(log[c]) =>
              /\ FramesOf(c) = <<LLMFullResponseStartFrame>>
                                 \o StreamFrames(proc, yielded[c])
                                 \o <<LLMFullResponseEndFrame>>
              /\ pc[c] \in {"push_end", "done"}
              /\ pc[c] = "done" => (result[c] = "returned" \/ TornDown(c))

\* the backend yields "Hel", then raises: start, TextFrame("Hel"), end, returned
C2_Witness ==
    \E c \in Calls :
        /\ proc = "langchain"
        /\ yielded[c] = <<Token("str", "Hel")>>
        /\ log[c] = <<[level |-> "error", exc |-> "BackendError"]>>
        /\ result[c] = "returned"
        /\ FramesOf(c) = <<LLMFullResponseStartFrame, TextFrame("Hel"),
                           LLMFullResponseEndFrame>>

(* C3: a call that was torn down (cancelled or closed) after its stream was
   opened has still pushed the end frame *)
C3_TeardownStillEnds ==
    \A c \in Calls :
        (pc[c] = "done" /\ opens[c] > 0) =>
            LLMFullResponseEndFrame \in Range(FramesOf(c))

(* C4: the TextFrame and ToolResultMessage frames of an invocation are, in
   order, those of the elements the stream yielded: a prefix of them at any
   moment, and all of them when the loop asks for the next element and when
   the stream has ended or raised *)
C4_StreamOrderKept ==
    \A c \in Calls :
        Invoked(c) =>
            /\ IsPrefix(TextAndToolFrames(FramesOf(c)),
                        TextAndToolFrames(StreamFrames(proc, yielded[c])))
            /\ (pc[c] = "anext" \/ StreamOver(c)) =>
                   TextAndToolFrames(FramesOf(c))
                       = TextAndToolFrames(StreamFrames(proc, yielded[c]))

\* three elements, four payload frames, pushed in the order of the stream
C4_Witness ==
    \E c \in Calls :
        /\ proc = "langgraph"
        /\ result[c] = "returned"
        /\ Len(yielded[c]) = 3
        /\ yielded[c][1].event = "on_tool_start"
        /\ TextAndToolFrames(FramesOf(c))
              = <<TextFrame("42"), ToolResultMessage("D1"), ToolResultMessage("D2")>>

-----------------------------------------------------------------------------
(* What the claims about the adapter and the configuration speak about *)

\* call c was made with a frame that is no LLMMessagesFrame
PassThrough(c) == c <= Len(arrived) /\ ~IsLLMMessagesFrame(arrived[c].frame)

\* what call c has handed to push_frame: (frame, direction) pairs
PushesOf(c) ==
    LET mine == SelectSeq(out, LAMBDA r : r.call = c)
    IN  [i \in 1 .. Len(mine) |-> [frame |-> mine[i].frame, dir |-> mine[i].dir]]

\* the pushes of all pass-through calls, in the order of out
Forwarded ==
    LET passed == SelectSeq(out, LAMBDA r : PassThrough(r.call))
    IN  [i \in 1 .. Len(passed) |-> [frame |-> passed[i].frame, dir |-> passed[i].dir]]

\* the arrivals that are no LLMMessagesFrame, in the order of arrival
OtherArrivals == SelectSeq(arrived, LAMBDA a : ~IsLLMMessagesFrame(a.frame))

\* t is s without its leading and trailing whitespace
IsStripped(t, s) ==
    /\ t = <<>> \/ (t[1] \notin Whitespace /\ t[Len(t)] \notin Whitespace)
    /\ \E i \in 0 .. Len(s) :
          /\ i + Len(t) <= Len(s)
          /\ SubSeq(s, i + 1, i + Len(t)) = t
          /\ \A j \in 1 .. Len(s) :
                (j <= i \/ j > i + Len(t)) => s[j] \in Whitespace

\* the keys that the updates set, each with the value of the last update
\* that sets it
RightBiasedMerge(us) ==
    LET keys == UNION { DOMAIN us[i] : i \in 1 .. Len(us) }
        last(k) == CHOOSE i \in 1 .. Len(us) :
                      /\ k \in DOMAIN us[i]
                      /\ \A j \in (i + 1) .. Len(us) : k \notin DOMAIN us[j]
    IN  [k \in keys |-> us[last(k)][k]]

-----------------------------------------------------------------------------
(* C5: a frame that is no LLMMessagesFrame is pushed once, as it came and
   in the direction it came with; its call opens no backend stream and
   pushes nothing else; such frames leave in the order they arrived *)
C5_OtherFramesForwarded ==
    /\ \A c \in Calls :
          PassThrough(c) =>
              /\ PushesOf(c) = <<arrived[c]>>
              /\ opens[c] = 0
    /\ Forwarded = OtherArrivals

\* two different frames passed through, the first one upstream
C5_Witness ==
    /\ Len(arrived) = 2
    /\ PassThrough(1) /\ PassThrough(2)
    /\ arrived[1].frame # arrived[2].frame
    /\ arrived[1].dir = UPSTREAM /\ arrived[2].dir = DOWNSTREAM
    /\ result[1] = "returned" /\ result[2] = "returned"
    /\ Len(out) = 2

(* C6: an element of an unrecognized shape gives rise to no payload frame,
   and the loop goes on with the elements after it *)
C6_MalformedElementSkipped ==
    \A c \in Calls :
        Invoked(c) =>
            /\ Len(SelectSeq(FramesOf(c), LAMBDA f : f.kind \in PayloadKinds))
                  <= Len(StreamFrames(proc, SelectSeq(yielded[c], LAMBDA e :
                         IF proc = "langchain"
                         THEN e.shape \in {"str", "AIMessageChunk"}
                         ELSE (e.event = "on_chat_model_stream" => e.hasChunk)
                              /\ (e.event = "on_retriever_end" => e.hasDocs))))
            /\ [level |-> "error", exc |-> "KeyError"] \notin Range(log[c])

(* C7: the text the backend stream is opened with is the content of the last
   message of the trigger frame, without leading and trailing whitespace *)
C7_LastMessageStripped ==
    \A c \in Calls :
        opens[c] > 0 =>
            LET messages == arrived[c].frame.messages
            IN  /\ messages # <<>>
                /\ IsStripped(submitted[c], messages[Len(messages)].content)

\* two messages: the second one, stripped, is submitted
C7_Witness ==
    \E c \in Calls :
        /\ opens[c] > 0
        /\ arrived[c].frame.messages = <<Message("user", Hello), Message("user", Bye)>>
        /\ submitted[c] = <<"B", " ", "y">>

(* C8: an LLMMessagesFrame is never pushed; what its call pushes are the
   start frame, payload frames and the end frame, all downstream *)
C8_TriggerConsumed ==
    \A i \in 1 .. Len(out) :
        /\ ~IsLLMMessagesFrame(out[i].frame)
        /\ ~PassThrough(out[i].call) =>
              /\ out[i].dir = DOWNSTREAM
              /\ out[i].frame.kind \in PayloadKinds
                    \cup {"LLMFullResponseStartFrame", "LLMFullResponseEndFrame"}

\* a trigger that came upstream: start, text, end were pushed, not the trigger
C8_Witness ==
    \E c \in Calls :
        /\ Invoked(c)
        /\ arrived[c].dir = UPSTREAM
        /\ result[c] = "returned"
        /\ Len(FramesOf(c)) >= 3

(* C9: the dict the backend is handed as config["configurable"] is the
   right-biased merge of the set_configurable calls made before *)
C9_ConfigurableIsMerge ==
    /\ config = RightBiasedMerge(updates)
    /\ \A c \in Calls :
          (proc = "langchain" /\ opens[c] > 0) =>
              /\ cfgRef[c] = "self._config"
              /\ openedCfg[c] = RightBiasedMerge(SubSeq(updates, 1, openedUpd[c]))

\* {"thread_id": "xyz", "lang": "en"}, then {"thread_id": "abc"}, then invoke
C9_Witness ==
    \E c \in Calls :
        /\ opens[c] > 0
        /\ openedUpd[c] = 2
        /\ DOMAIN updates[1] = {"thread_id", "lang"}
        /\ updates[2] = [k \in {"thread_id"} |-> "abc"]
        /\ openedCfg[c] = [k \in {"thread_id", "lang"} |->
                              IF k = "thread_id" THEN "abc" ELSE "en"]

(* C10: while an invocation runs, the dict its backend stream was handed
   stays as it was when the stream was opened *)
C10_ConfigurableFrozen ==
    \A c \in Calls :
        (cfgRef[c] # "none" /\ pc[c] # "done") =>
            BackendConfigurable(c) = openedCfg[c]

-----------------------------------------------------------------------------
(* C11 *)

\* call c is suspended inside _ainvoke
Running(c) == Invoked(c) /\ pc[c] \notin {"unused", "done"}

-----------------------------------------------------------------------------
(* C12, C13, C14: what one stream event gives rise to *)

\* the elements the stream of call c yielded before the current one
Earlier(c) == SubSeq(yielded[c], 1, Len(yielded[c]) - 1)

\* the frames call c has pushed for the current element: those after the start
\* frame and after the frames of the earlier elements
Produced(c) ==
    SubSeq(FramesOf(c), 2 + Len(StreamFrames(proc, Earlier(c))), Len(FramesOf(c)))

\* the loop body has run for the current element and the next one is awaited
ElementDone(c) == Invoked(c) /\ pc[c] = "anext" /\ yielded[c] # <<>>

\* the text of a chunk, by its shape
ChunkText(chunk) == IF chunk.shape \in {"str", "AIMessageChunk"} THEN chunk.content ELSE ""

\* the sub-response frames of a model-stream event
Triple(event) ==
    <<Frame("LLMResponseStartFrame", "", "", "", <<>>),
      Frame("TextFrame", ChunkText(event.chunk), "", "", <<>>),
      Frame("LLMResponseEndFrame", "", "", "", <<>>)>>

\* C12: in LanggraphProcessor every on_chat_model_stream event gives exactly
\* three consecutive frames, LLMResponseStartFrame, one TextFrame with the text
\* of the event's chunk, LLMResponseEndFrame, in that order and with nothing
\* between them; while the three are being pushed the frames are a prefix of them.
C12_ModelStreamGivesTriple ==
    \A c \in Calls :
        Invoked(c) /\ proc = "langgraph" /\ yielded[c] # <<>>
          /\ Current(c).event = "on_chat_model_stream" /\ Current(c).hasChunk =>
            /\ pc[c] = "anext" => Produced(c) = Triple(Current(c))
            /\ pc[c] = "push_substart" => Produced(c) = SubSeq(Triple(Current(c)), 1, 1)
            /\ pc[c] = "push_text" => Produced(c) = SubSeq(Triple(Current(c)), 1, 2)
            /\ pc[c] = "push_subend" => Produced(c) = Triple(Current(c))

\* Scenario 3: tool start, model stream "42", retriever end with D1, D2
C12_Witness ==
    \E c \in Calls :
        /\ proc = "langgraph"
        /\ result[c] = "returned"
        /\ Len(yielded[c]) = 3
        /\ yielded[c][1].event = "on_tool_start"
        /\ yielded[c][2].event = "on_chat_model_stream"
        /\ yielded[c][3].event = "on_retriever_end"
        /\ FramesOf(c) = <<LLMFullResponseStartFrame,
                           LLMResponseStartFrame, TextFrame("42"), LLMResponseEndFrame,
                           ToolResultMessage("D1"), ToolResultMessage("D2"),
                           LLMFullResponseEndFrame>>

\* the tool results of the first n documents of a retriever-end event
ToolResults(event, n) ==
    [i \in 1 .. n |-> Frame("ToolResultMessage", "", event.documents[i], "tool_result", <<>>)]

\* C13: an on_retriever_end event with the documents d1..dn gives exactly n
\* ToolResultMessage frames of type "tool_result", the i-th carrying di, in the
\* order of the list, and no other frame; with no documents it gives no frame.
C13_RetrieverGivesToolResults ==
    \A c \in Calls :
        Invoked(c) /\ proc = "langgraph" /\ yielded[c] # <<>>
          /\ Current(c).event = "on_retriever_end" /\ Current(c).hasDocs =>
            /\ pc[c] = "anext" =>
                   Produced(c) = ToolResults(Current(c), Len(Current(c).documents))
            /\ pc[c] = "push_doc" => Produced(c) = ToolResults(Current(c), docidx[c])

\* an empty document list gave nothing and a list of two gave two frames
C13_Witness ==
    \E c \in Calls :
        /\ proc = "langgraph"
        /\ ElementDone(c)
        /\ Len(yielded[c]) = 2
        /\ yielded[c][1].event = "on_retriever_end" /\ yielded[c][1].hasDocs
        /\ yielded[c][1].documents = <<>>
        /\ yielded[c][2].documents = <<"D1", "D2">>
        /\ FramesOf(c) = <<LLMFullResponseStartFrame,
                           ToolResultMessage("D1"), ToolResultMessage("D2")>>

\* the event kinds the loop body has no frame for
Ignored(event) == event.event \notin {"on_chat_model_stream", "on_retriever_end"}

\* this step is the stream of call c yielding an ignored event
YieldsIgnored(c) ==
    /\ Len(yielded'[c]) = Len(yielded[c]) + 1
    /\ Ignored(yielded'[c][Len(yielded'[c])])

\* C14: on_tool_start, on_tool_end and events of any other kind push no frame,
\* raise nothing and do not stop the draining: the step that takes such an
\* event leaves the frames and the log as they are and awaits the next element,
\* and the frames of a stream are those of the stream without such events.
C14_OtherEventsIgnored ==
    /\ [][\A c \in Calls : proc = "langgraph" /\ YieldsIgnored(c) =>
             /\ out' = out
             /\ log' = log
             /\ result' = result
             /\ pc'[c] = "anext"]_vars
    /\ [](\A c \in Calls :
             Invoked(c) /\ proc = "langgraph" =>
                 LET kept == SelectSeq(yielded[c], LAMBDA e : ~Ignored(e))
                     body == <<LLMFullResponseStartFrame>> \o StreamFrames(proc, kept)
                 IN  /\ pc[c] = "anext" => FramesOf(c) = body
                     /\ StreamOver(c) =>
                            FramesOf(c) = body \o <<LLMFullResponseEndFrame>>)

\* a stream of ignored events only has been drained: no payload frame
C14_Witness ==
    \E c \in Calls :
        /\ proc = "langgraph"
        /\ result[c] = "returned"
        /\ Len(yielded[c]) = 3
        /\ yielded[c][1].event = "on_tool_start"
        /\ yielded[c][2].event = "on_tool_end"
        /\ yielded[c][3].event = "on_chain_start"
        /\ FramesOf(c) = <<LLMFullResponseStartFrame, LLMFullResponseEndFrame>>
        /\ log[c] = <<>>

-----------------------------------------------------------------------------
(* C15 *)

\* C15: one invocation opens the backend stream exactly once, with the text of
\* the call: never a second time, once it is past the start frame it has opened
\* it, and after a contained fault it only pushes the end frame and returns.
C15_StreamOpenedOnce ==
    \A c \in Calls :
        /\ opens[c] <= 1
        /\ ~Invoked(c) => opens[c] = 0
        /\ Invoked(c) /\ (pc[c] \in TryAwaits \/ result[c] = "returned") =>
               opens[c] = 1 /\ submitted[c] = text[c]
        /\ Invoked(c) /\ log[c] # <<>> =>
               /\ opens[c] = 1
               /\ Len(log[c]) = 1
               /\ pc[c] \in {"push_end", "done"}

\* the backend raised after an element; the call returned with one opening
C15_Witness ==
    \E c \in Calls :
        /\ result[c] = "returned"
        /\ yielded[c] # <<>>
        /\ log[c] = <<[level |-> "error", exc |-> "BackendError"]>>
        /\ opens[c] = 1

-----------------------------------------------------------------------------
(* C16 *)

\* the awaits inside the loop body: a frame of the current element is in flight
BodyAwaits == {"push_text", "push_substart", "push_subend", "push_doc"}

\* the start frame and every frame of the given elements
Drained(elements) == <<LLMFullResponseStartFrame>> \o StreamFrames(proc, elements)

\* C16: the stream is drained strictly one element at a time. The step that
\* takes the next element starts from the await of the stream, with every frame
\* of the elements before it pushed and no push pending; while a frame is in
\* flight it belongs to the current element, all frames of the earlier elements
\* are out already, and no further element is taken.
C16_OneElementAtATime ==
    /\ [][\A c \in Calls : Len(yielded'[c]) > Len(yielded[c]) =>
             /\ pc[c] = "anext"
             /\ Len(yielded'[c]) = Len(yielded[c]) + 1
             /\ FramesOf(c) = Drained(yielded[c])]_vars
    /\ [][\A c \in Calls : pc[c] \in BodyAwaits => yielded'[c] = yielded[c]]_vars
    /\ [](\A c \in Calls : Invoked(c) /\ pc[c] \in BodyAwaits =>
             /\ yielded[c] # <<>>
             /\ IsPrefix(Drained(Earlier(c)), FramesOf(c))
             /\ Produced(c) # <<>>)

\* the third element is in work: the frames of the first two are all out
C16_Witness ==
    \E c \in Calls :
        /\ Len(yielded[c]) = 3
        /\ pc[c] \in BodyAwaits
        /\ Len(StreamFrames(proc, Earlier(c))) >= 2
        /\ Len(FramesOf(c)) = 2 + Len(StreamFrames(proc, Earlier(c)))

-----------------------------------------------------------------------------
(* C17 *)

\* C17: when the backend stream is finite and the sink completes every push,
\* every invocation that has pushed its start frame goes on to push its end
\* frame, and process_frame returns.
C17_InvocationEnds ==
    \A c \in Calls :
        (Invoked(c) /\ LLMFullResponseStartFrame \in Range(FramesOf(c)))
            ~> (/\ LLMFullResponseEndFrame \in Range(FramesOf(c))
                /\ result[c] = "returned")

\* an invocation that drained three elements has pushed its end frame and returned
C17_Witness ==
    \E c \in Calls :
        /\ Len(yielded[c]) = 3
        /\ ClosedBracket(FramesOf(c))
        /\ result[c] = "returned"

-----------------------------------------------------------------------------
(* C18 *)

\* the value __get_token_value is applied to for a stream element
TokenOf(element) == IF proc = "langchain" THEN element ELSE element.chunk

\* the TextFrame frames the tokens of the given elements are to give
TextFramesFor(elements) ==
    [i \in 1 .. Len(elements) |->
        Frame("TextFrame", ChunkText(TokenOf(elements[i])), "", "", <<>>)]

\* C18: __get_token_value is total and never raises: a plain string s gives s,
\* an AIMessageChunk with the text t gives t, every other value gives the empty
\* string; so a string and a chunk with the same text give the same TextFrame.
C18_TokenValueTotal ==
    \A c \in Calls :
        Invoked(c) =>
            /\ log[c] = <<>>
            /\ result[c] \in {"none", "returned"}
            /\ IsPrefix(TextAndToolFrames(FramesOf(c)), TextFramesFor(yielded[c]))
            /\ pc[c] \notin {"anext", "push_substart"} =>
                   TextAndToolFrames(FramesOf(c)) = TextFramesFor(yielded[c])

\* a string, a chunk with the same text and a dict have been through it
C18_Witness ==
    \E c \in Calls :
        /\ result[c] = "returned"
        /\ Len(yielded[c]) = 3
        /\ TokenOf(yielded[c][1]) = Token("str", "Hel")
        /\ TokenOf(yielded[c][2]) = Token("AIMessageChunk", "Hel")
        /\ TokenOf(yielded[c][3]) = Token("dict", "junk")
        /\ TextAndToolFrames(FramesOf(c))
              = <<TextFrame("Hel"), TextFrame("Hel"), TextFrame("")>>

-----------------------------------------------------------------------------
(* C19 *)

\* C19: the sub-response brackets of an invocation that has pushed its end frame
\* are balanced, also when a contained fault cut the stream short: every
\* LLMResponseStartFrame is followed by one TextFrame and then its
\* LLMResponseEndFrame, and in LanggraphProcessor no TextFrame or
\* LLMResponseEndFrame stands outside such a pair.
C19_SubBracketsBalanced ==
    \A c \in Calls :
        Invoked(c) /\ LLMFullResponseEndFrame \in Range(FramesOf(c)) =>
            LET frames == FramesOf(c)
            IN  \A i \in 1 .. Len(frames) :
                    /\ frames[i] = LLMResponseStartFrame =>
                           /\ i + 2 <= Len(frames)
                           /\ frames[i + 1].kind = "TextFrame"
                           /\ frames[i + 2] = LLMResponseEndFrame
                    /\ proc = "langgraph" /\ frames[i].kind = "TextFrame" =>
                           frames[i - 1] = LLMResponseStartFrame
                    /\ frames[i] = LLMResponseEndFrame =>
                           frames[i - 1].kind = "TextFrame"

-----------------------------------------------------------------------------
(* C20 *)

\* a trigger frame that has no message, or whose last message has no "content"
HasNoLastText(frame) ==
    /\ frame.kind = "LLMMessagesFrame"
    /\ \/ frame.messages = <<>>
       \/ ~frame.messages[Len(frame.messages)].hasContent

\* call c was made with such a frame
NoLastText(c) ==
    /\ c <= Len(arrived)
    /\ HasNoLastText(arrived[c].frame)

\* C20: a trigger frame with an empty message list, or with a last message
\* without text content, makes process_frame fail before the invocation: the
\* IndexError or KeyError leaves process_frame, the backend stream is not
\* opened, no frame is pushed, nothing is logged, and the step leaves the
\* configuration of the processor as it was.
C20_NoLastMessageFails ==
    /\ [](\A c \in Calls : NoLastText(c) =>
             /\ pc[c] = "done"
             /\ result[c] = IF arrived[c].frame.messages = <<>>
                            THEN "IndexError" ELSE "KeyError"
             /\ FramesOf(c) = <<>>
             /\ opens[c] = 0
             /\ submitted[c] = <<>>
             /\ log[c] = <<>>)
    /\ [][Len(arrived') > Len(arrived)
            /\ HasNoLastText(arrived'[Len(arrived')].frame) =>
             /\ out' = out
             /\ config' = config
             /\ participant_id' = participant_id
             /\ updates' = updates
             /\ opens' = opens]_vars

\* both faults have happened on a processor that had been configured
C20_Witness ==
    /\ NoLastText(1) /\ NoLastText(2)
    /\ result[1] = "IndexError"
    /\ result[2] = "KeyError"
    /\ out = <<>>
    /\ (config # EmptyDict \/ participant_id # None)

====
